---- MODULE Spec2Model ----
(***************************************************************************)
(* Model of find-winsdk (src/lib.rs): SdkInfo::find and its helpers        *)
(* query_env, query_reg and find_double_release, run against an            *)
(* environment block and a registry whose contents are fixed at start.     *)
(* Every operator that touches the registry returns the outcome together   *)
(* with the list of subkeys it opened, in order.                           *)
(***************************************************************************)
EXTENDS Integers, Sequences, FiniteSets, TLC

VARIABLES env, registry, version, res, opened

vars == <<env, registry, version, res, opened>>

(* ---------------------------------------------------------------- bounds *)
\* at most this many registry subkeys are anything but absent
MaxPresent == 2
\* WindowsSdkVersion texts of up to this many characters are enumerated
MaxVerLen == 6

(* ------------------------------------------------------- registry subkeys *)
V10_0_REG_KEY == "SOFTWARE\\Microsoft\\Microsoft SDKs\\Windows\\v10.0"
V8_1A_REG_KEY == "SOFTWARE\\Microsoft\\Microsoft SDKs\\Windows\\v8.1A"
V8_1_REG_KEY == "SOFTWARE\\Microsoft\\Microsoft SDKs\\Windows\\v8.1"
V8_0A_REG_KEY == "SOFTWARE\\Microsoft\\Microsoft SDKs\\Windows\\v8.0A"
V8_0_REG_KEY == "SOFTWARE\\Microsoft\\Microsoft SDKs\\Windows\\v8.0"
V7_1A_REG_KEY == "SOFTWARE\\Microsoft\\Microsoft SDKs\\Windows\\v7.1A"
V7_1_REG_KEY == "SOFTWARE\\Microsoft\\Microsoft SDKs\\Windows\\v7.1"
V7_0A_REG_KEY == "SOFTWARE\\Microsoft\\Microsoft SDKs\\Windows\\v7.0a"
V7_0_REG_KEY == "SOFTWARE\\Microsoft\\Microsoft SDKs\\Windows\\v7.0"
V6_1A_REG_KEY == "SOFTWARE\\Microsoft\\Microsoft SDKs\\Windows\\v6.1a"
V6_1_REG_KEY == "SOFTWARE\\Microsoft\\Microsoft SDKs\\Windows\\v6.1"
V6_0A_REG_KEY == "SOFTWARE\\Microsoft\\Microsoft SDKs\\Windows\\v6.0a"
V6_0_REG_KEY == "SOFTWARE\\Microsoft\\Microsoft SDKs\\Windows\\v6.0"

RegKeys ==
  { V10_0_REG_KEY, V8_1A_REG_KEY, V8_1_REG_KEY, V8_0A_REG_KEY, V8_0_REG_KEY,
    V7_1A_REG_KEY, V7_1_REG_KEY, V7_0A_REG_KEY, V7_0_REG_KEY,
    V6_1A_REG_KEY, V6_1_REG_KEY, V6_0A_REG_KEY, V6_0_REG_KEY }

\* enum SdkVersion
SdkVersion ==
  { "Any", "Env", "V10_0", "V8_1", "V8_0", "V7_1", "V7_0", "V6_1", "V6_0" }

(* ------------------------------------------------------------ value types *)
\* OsString: text that may or may not be valid Unicode
OsStr(t) == [unicode |-> TRUE, text |-> t]
NotUnicode == [unicode |-> FALSE, text |-> <<>>]

\* Option<T>
Some(v) == [some |-> TRUE, val |-> v]
NoOsStr == [some |-> FALSE, val |-> OsStr(<<>>)]
NoString == [some |-> FALSE, val |-> ""]

\* struct SdkInfo
MkSdkInfo(folder, name, ver) ==
  [installation_folder |-> folder, product_name |-> name, product_version |-> ver]
NoInfo == MkSdkInfo(OsStr(<<>>), NoString, <<>>)

\* io::Result<Option<SdkInfo>>, plus the panic that unwinds out of find
NoError == [kind |-> "", subkey |-> ""]
OkNone == [tag |-> "OkNone", info |-> NoInfo, err |-> NoError, msg |-> ""]
OkSome(i) == [tag |-> "OkSome", info |-> i, err |-> NoError, msg |-> ""]
Err(e) == [tag |-> "Err", info |-> NoInfo, err |-> e, msg |-> ""]
Panic(m) == [tag |-> "Panic", info |-> NoInfo, err |-> NoError, msg |-> m]
NotCalled == [tag |-> "NotCalled", info |-> NoInfo, err |-> NoError, msg |-> ""]

\* a call's outcome and the subkeys it opened
Ret(r, l) == [res |-> r, log |-> l]

(* ------------------------------------------------------ the registry side *)
\* value names of a subkey, as serde renames the fields of SdkInfo
AllFields == {"InstallationFolder", "ProductName", "ProductVersion"}

\* a subkey that exists: the value names it holds, and their data
RegKey(k, fields) ==
  [status |-> "Present", fields |-> fields,
   InstallationFolder |-> OsStr(<<k>>), ProductName |-> "Windows SDK",
   ProductVersion |-> <<"r", "e", "g">>]
\* a subkey that does not exist / one that cannot be opened
KeyNotFound == [RegKey("", {}) EXCEPT !.status = "NotFound"]
KeyDenied == [RegKey("", {}) EXCEPT !.status = "PermissionDenied"]

\* what a subkey that is not absent may look like
NonAbsent(k) ==
  { RegKey(k, AllFields),
    RegKey(k, AllFields \ {"ProductVersion"}),
    KeyDenied }

\* RegKey::open_subkey_with_flags: the key, or the io::Error
open_subkey_with_flags(subkey) ==
  IF registry[subkey].status = "Present"
    THEN [ok |-> TRUE, key |-> registry[subkey], err |-> NoError]
    ELSE [ok |-> FALSE, key |-> KeyNotFound,
          err |-> [kind |-> registry[subkey].status, subkey |-> subkey]]

\* RegKey::decode into SdkInfo: the two required fields must be there,
\* product_name is an Option and defaults to None
decode(key) ==
  IF {"InstallationFolder", "ProductVersion"} \subseteq key.fields
    THEN [ok |-> TRUE,
          info |-> MkSdkInfo(key.InstallationFolder,
                             IF "ProductName" \in key.fields
                               THEN Some(key.ProductName) ELSE NoString,
                             key.ProductVersion)]
    ELSE [ok |-> FALSE, info |-> NoInfo]

\* query_reg, had it not folded NotFound into None
query_reg_not_found_is_error(subkey) ==
  LET o == open_subkey_with_flags(subkey) IN
  IF o.ok
    THEN LET d == decode(o.key) IN
         Ret(IF d.ok THEN OkSome(d.info) ELSE OkNone, <<subkey>>)
    ELSE Ret(Err(o.err), <<subkey>>)

\* query_reg, had it folded every error of the open into None
query_reg_swallows_errors(subkey) ==
  LET o == open_subkey_with_flags(subkey) IN
  IF o.ok
    THEN LET d == decode(o.key) IN
         Ret(IF d.ok THEN OkSome(d.info) ELSE OkNone, <<subkey>>)
    ELSE Ret(OkNone, <<subkey>>)

\* query_reg, had it reported a failed decode as an error
query_reg_decode_error(subkey) ==
  LET o == open_subkey_with_flags(subkey) IN
  IF o.ok
    THEN LET d == decode(o.key) IN
         Ret(IF d.ok THEN OkSome(d.info)
                     ELSE Err([kind |-> "InvalidData", subkey |-> subkey]),
             <<subkey>>)
    ELSE IF o.err.kind = "NotFound"
           THEN Ret(OkNone, <<subkey>>)
           ELSE Ret(Err(o.err), <<subkey>>)

\* SdkInfo::query_reg
query_reg(subkey) ==
  LET o == open_subkey_with_flags(subkey) IN
  IF o.ok
    THEN LET d == decode(o.key) IN
         Ret(IF d.ok THEN OkSome(d.info) ELSE OkNone, <<subkey>>)
    ELSE IF o.err.kind = "NotFound"
           THEN Ret(OkNone, <<subkey>>)
           ELSE Ret(Err(o.err), <<subkey>>)

\* find_double_release, had it tried the plain subkey first
find_double_release_plain_first(keys) ==
  LET r == query_reg(keys[2]) IN
  IF r.res = OkNone
    THEN LET r2 == query_reg(keys[1]) IN Ret(r2.res, r.log \o r2.log)
    ELSE r

\* find_double_release, had it gone on to the plain subkey after an error too
find_double_release_past_errors(keys) ==
  LET r == query_reg(keys[1]) IN
  IF r.res.tag = "OkSome"
    THEN r
    ELSE LET r2 == query_reg(keys[2]) IN Ret(r2.res, r.log \o r2.log)

\* SdkInfo::find_double_release
find_double_release(keys) ==
  LET r == query_reg(keys[1]) IN
  IF r.res = OkNone
    THEN LET r2 == query_reg(keys[2]) IN Ret(r2.res, r.log \o r2.log)
    ELSE r

(* --------------------------------------------------- the environment side *)
\* env::var_os
var_os(name) == env[name]

\* the separator, had it been dot, zero only
SplitPattern_dot_zero == <<".", "0">>

\* the separator of s.split(r".0\")
SplitPattern == <<".", "0", "\\">>

\* index of the first match of pat in s at or after i, 0 when there is none
RECURSIVE first_match(_, _, _)
first_match(s, pat, i) ==
  IF i + Len(pat) - 1 > Len(s) THEN 0
  ELSE IF SubSeq(s, i, i + Len(pat) - 1) = pat THEN i
  ELSE first_match(s, pat, i + 1)

\* s.split(r".0\").next(): the piece before the first separator
split_next(s) ==
  LET m == first_match(s, SplitPattern, 1) IN
  IF m = 0 THEN s ELSE SubSeq(s, 1, m - 1)

\* query_env, had it given None for a version that is not valid text
query_env_skips_bad_text ==
  LET install_dir == var_os("WindowsSdkDir")
      ver == var_os("WindowsSdkVersion") IN
  IF ~install_dir.some \/ ~ver.some \/ ~ver.val.unicode
    THEN [panic |-> FALSE, some |-> FALSE, val |-> NoInfo]
    ELSE [panic |-> FALSE, some |-> TRUE,
          val |-> MkSdkInfo(install_dir.val, NoString, split_next(ver.val.text))]

\* query_env, had it taken an absent WindowsSdkVersion for an empty one
query_env_version_optional ==
  LET install_dir == var_os("WindowsSdkDir")
      ver == var_os("WindowsSdkVersion") IN
  IF ~install_dir.some
    THEN [panic |-> FALSE, some |-> FALSE, val |-> NoInfo]
    ELSE IF ver.some /\ ~ver.val.unicode
      THEN [panic |-> TRUE, some |-> FALSE, val |-> NoInfo]
      ELSE [panic |-> FALSE, some |-> TRUE,
            val |-> MkSdkInfo(install_dir.val, NoString,
                              IF ver.some THEN split_next(ver.val.text) ELSE <<>>)]

\* SdkInfo::query_env: None, Some(info), or the panic of `expect`
query_env ==
  LET install_dir == var_os("WindowsSdkDir")
      ver == var_os("WindowsSdkVersion") IN
  IF ~install_dir.some \/ ~ver.some
    THEN [panic |-> FALSE, some |-> FALSE, val |-> NoInfo]
    ELSE IF ~ver.val.unicode
      THEN [panic |-> TRUE, some |-> FALSE, val |-> NoInfo]
      ELSE [panic |-> FALSE, some |-> TRUE,
            val |-> MkSdkInfo(install_dir.val, NoString, split_next(ver.val.text))]

(* --------------------------------------------------------------- find *)
\* the probe order, had the environment come after the Windows 10 SDK
vers_env_second == <<"V10_0", "Env", "V8_1", "V8_0", "V7_1", "V7_0", "V6_1", "V6_0">>

\* the probe order, had 8.0 come before 8.1
vers_8_0_first == <<"Env", "V10_0", "V8_0", "V8_1", "V7_1", "V7_0", "V6_1", "V6_0">>

\* the probe order of SdkVersion::Any
vers == <<"Env", "V10_0", "V8_1", "V8_0", "V7_1", "V7_0", "V6_1", "V6_0">>

RECURSIVE find(_), find_any(_, _)
\* SdkInfo::find
find(v) ==
  CASE v = "Any" -> find_any(1, <<>>)
    [] v = "Env" ->
         LET q == query_env IN
         IF q.panic THEN Ret(Panic("WindowsSdkVersion was not valid UTF-8"), <<>>)
         ELSE IF q.some THEN Ret(OkSome(q.val), <<>>)
         ELSE Ret(OkNone, <<>>)
    [] v = "V10_0" -> query_reg(V10_0_REG_KEY)
    [] v = "V8_1" -> find_double_release(<<V8_1A_REG_KEY, V8_1_REG_KEY>>)
    [] v = "V8_0" -> find_double_release(<<V8_0A_REG_KEY, V8_0_REG_KEY>>)
    [] v = "V7_1" -> find_double_release(<<V7_1A_REG_KEY, V7_1_REG_KEY>>)
    [] v = "V7_0" -> find_double_release(<<V7_0A_REG_KEY, V7_0_REG_KEY>>)
    [] v = "V6_1" -> find_double_release(<<V6_1A_REG_KEY, V6_1_REG_KEY>>)
    [] v = "V6_0" -> find_double_release(<<V6_0A_REG_KEY, V6_0_REG_KEY>>)

\* the loop of the Any arm, from the i-th probe on; log: subkeys opened so far
find_any(i, log) ==
  IF i > Len(vers) THEN Ret(OkNone, log)
  ELSE LET r == find(vers[i]) IN
       IF r.res = OkNone THEN find_any(i + 1, log \o r.log)
       ELSE Ret(r.res, log \o r.log)

(* ------------------------------------------------------------ the machine *)
\* registries with at most MaxPresent subkeys that are not absent
Registries ==
  UNION { { [k \in RegKeys |-> IF k \in S THEN f[k] ELSE KeyNotFound] :
              f \in {g \in [S -> UNION {NonAbsent(k) : k \in S}] :
                       \A k \in S : g[k] \in NonAbsent(k)} } :
          S \in {T \in SUBSET RegKeys : Cardinality(T) <= MaxPresent} }

ExampleDir == <<"C", ":", "\\", "S", "D", "K", "\\">>
ExampleVersion == <<"1", "0", ".", "0", ".", "1", "9", "0", "4", "1", ".", "0", "\\">>

\* an environment block holding (or not) the two variables
EnvBlock(dir, ver) ==
  [n \in {"WindowsSdkDir", "WindowsSdkVersion"} |->
     IF n = "WindowsSdkDir" THEN dir ELSE ver]

Init ==
  /\ \E dir \in {NoOsStr, Some(OsStr(ExampleDir))} :
       \E ver \in {NoOsStr, Some(NotUnicode), Some(OsStr(ExampleVersion))} :
         env = EnvBlock(dir, ver)
  /\ registry \in Registries
  /\ version = "None"
  /\ res = NotCalled
  /\ opened = <<>>

\* one call of SdkInfo::find(v): its outcome and the subkeys it opened
Find(v) ==
  /\ LET r == find(v) IN
       /\ res' = r.res
       /\ opened' = r.log
  /\ version' = v
  /\ UNCHANGED <<env, registry>>

FindAny == Find("Any")
FindEnv == Find("Env")
FindV10_0 == Find("V10_0")
FindV8_1 == Find("V8_1")
FindV8_0 == Find("V8_0")
FindV7_1 == Find("V7_1")
FindV7_0 == Find("V7_0")
FindV6_1 == Find("V6_1")
FindV6_0 == Find("V6_0")

Next ==
  \/ FindAny
  \/ FindEnv
  \/ FindV10_0
  \/ FindV8_1
  \/ FindV8_0
  \/ FindV7_1
  \/ FindV7_0
  \/ FindV6_1
  \/ FindV6_0

Spec == Init /\ [][Next]_vars

(* ------------------------------------- the environment probe on its own *)
\* the characters WindowsSdkVersion texts are built from
Chars == {"1", ".", "0", "\\"}

RECURSIVE TextsUpTo(_)
TextsUpTo(n) ==
  IF n = 0 THEN {<<>>}
  ELSE LET shorter == TextsUpTo(n - 1) IN
       shorter \cup {Append(t, c) : t \in shorter, c \in Chars}

VersionTexts == TextsUpTo(MaxVerLen) \cup {ExampleVersion}

\* an empty registry, and two where only the Windows 10 SDK is registered,
\* with and without a ProductName value
EmptyRegistry == [k \in RegKeys |-> KeyNotFound]
OnlyV10_0 == [EmptyRegistry EXCEPT ![V10_0_REG_KEY] = RegKey(V10_0_REG_KEY, AllFields)]
UnnamedV10_0 ==
  [EmptyRegistry EXCEPT
     ![V10_0_REG_KEY] = RegKey(V10_0_REG_KEY, AllFields \ {"ProductName"})]

InitEnv ==
  /\ \E dir \in {NoOsStr, Some(NotUnicode), Some(OsStr(ExampleDir))} :
       \E ver \in {NoOsStr, Some(NotUnicode)} \cup {Some(OsStr(t)) : t \in VersionTexts} :
         env = EnvBlock(dir, ver)
  /\ registry \in {EmptyRegistry, OnlyV10_0, UnnamedV10_0}
  /\ version = "None"
  /\ res = NotCalled
  /\ opened = <<>>

NextEnv ==
  \/ FindEnv
  \/ FindAny

SpecEnv == InitEnv /\ [][NextEnv]_vars

(* ======================================================== properties ==== *)
\* what the properties say about the environment and the registry
DirSet == env["WindowsSdkDir"].some
VerSet == env["WindowsSdkVersion"].some
BothSet == DirSet /\ VerSet
VerIsText == env["WindowsSdkVersion"].val.unicode

Absent(k) == registry[k].status = "NotFound"
Denied(k) == registry[k].status = "PermissionDenied"
Present(k) == registry[k].status = "Present"
Decodes(k) ==
  Present(k) /\ {"InstallationFolder", "ProductVersion"} \subseteq registry[k].fields
Corrupt(k) == Present(k) /\ ~Decodes(k)

\* the call returned the record stored under subkey k
FromKey(k) ==
  /\ res.tag = "OkSome"
  /\ res.info.installation_folder = registry[k].InstallationFolder
  /\ registry[k].InstallationFolder = OsStr(<<k>>)
  /\ res.info.product_version = registry[k].ProductVersion

\* the call failed with the error of opening subkey k
ErrorOf(k) ==
  /\ res.tag = "Err"
  /\ res.err = [kind |-> "PermissionDenied", subkey |-> k]

\* the seven generations, newest first, and where each is registered
Generations == <<"V10_0", "V8_1", "V8_0", "V7_1", "V7_0", "V6_1", "V6_0">>
DoubleGenerations == {"V8_1", "V8_0", "V7_1", "V7_0", "V6_1", "V6_0"}
ASuffixed(g) ==
  CASE g = "V8_1" -> V8_1A_REG_KEY [] g = "V8_0" -> V8_0A_REG_KEY
    [] g = "V7_1" -> V7_1A_REG_KEY [] g = "V7_0" -> V7_0A_REG_KEY
    [] g = "V6_1" -> V6_1A_REG_KEY [] g = "V6_0" -> V6_0A_REG_KEY
Plain(g) ==
  CASE g = "V8_1" -> V8_1_REG_KEY [] g = "V8_0" -> V8_0_REG_KEY
    [] g = "V7_1" -> V7_1_REG_KEY [] g = "V7_0" -> V7_0_REG_KEY
    [] g = "V6_1" -> V6_1_REG_KEY [] g = "V6_0" -> V6_0_REG_KEY
Locations(g) ==
  IF g = "V10_0" THEN {V10_0_REG_KEY} ELSE {ASuffixed(g), Plain(g)}

\* the thirteen subkeys in the order a full search visits them
SearchOrder ==
  << V10_0_REG_KEY, V8_1A_REG_KEY, V8_1_REG_KEY, V8_0A_REG_KEY, V8_0_REG_KEY,
     V7_1A_REG_KEY, V7_1_REG_KEY, V7_0A_REG_KEY, V7_0_REG_KEY,
     V6_1A_REG_KEY, V6_1_REG_KEY, V6_0A_REG_KEY, V6_0_REG_KEY >>

\* the eight probes of a full search, in the order the documentation gives
ProbeOrder == <<"Env">> \o Generations

RECURSIVE LogsUpTo(_)
\* the subkeys the first n probes open when each is run on its own
LogsUpTo(n) == IF n = 0 THEN <<>> ELSE LogsUpTo(n - 1) \o find(ProbeOrder[n]).log

(* C1: find(Any) returns the result of the Env probe whenever both
   WindowsSdkDir and WindowsSdkVersion are set, whatever the registry holds:
   a record built from the environment (or the panic of the Env probe),
   without a single subkey having been opened. *)
C1_EnvWins ==
  (version = "Any" /\ BothSet) =>
     /\ res = find("Env").res
     /\ res.tag \in {"OkSome", "Panic"}
     /\ res.tag = "OkSome" => /\ res.info.installation_folder = env["WindowsSdkDir"].val
                              /\ res.info.product_name = NoString
     /\ opened = <<>>

C1_Witness ==
  /\ version = "Any" /\ BothSet /\ VerIsText
  /\ Decodes(V10_0_REG_KEY) /\ Denied(V8_1A_REG_KEY)
  /\ res.tag = "OkSome"
  /\ res.info.installation_folder = OsStr(ExampleDir)

(* C2: find(Any) runs the probes Env, 10.0, 8.1, 8.0, 7.1, 7.0, 6.1, 6.0 in
   that order, returns the outcome of the first one that is not Ok(None) and
   runs no probe after it; it returns Ok(None) exactly when all eight probes
   give Ok(None). *)
C2_FirstProbeWins ==
  version = "Any" =>
    LET hits == {i \in 1..Len(ProbeOrder) : find(ProbeOrder[i]).res # OkNone} IN
    /\ (res = OkNone) <=> (hits = {})
    /\ hits = {} => opened = LogsUpTo(Len(ProbeOrder))
    /\ hits # {} =>
         LET first == CHOOSE i \in hits : \A j \in hits : i <= j IN
         /\ res = find(ProbeOrder[first]).res
         /\ opened = LogsUpTo(first)
    /\ (~BothSet /\ \A k \in RegKeys : ~Denied(k)) =>
         \A i \in 1..Len(Generations) :
           ( /\ \E k \in Locations(Generations[i]) : FromKey(k)
             /\ find(Generations[i]).res = res )
           => \A j \in 1..(i - 1) : find(Generations[j]).res = OkNone

C2_Witness ==
  /\ version = "Any" /\ ~BothSet
  /\ Decodes(V8_0_REG_KEY) /\ Decodes(V7_0A_REG_KEY)
  /\ FromKey(V8_0_REG_KEY)
  /\ opened = SubSeq(SearchOrder, 1, 5)

(* C3: for each of the seven generation selectors, when every location of
   that generation is absent from the registry, find returns Ok(None) and
   not an error. *)
C3_AbsentIsNone ==
  \A i \in 1..Len(Generations) :
    (version = Generations[i] /\ \A k \in Locations(Generations[i]) : Absent(k))
      => res = OkNone

C3_Witness ==
  /\ version = "V7_1"
  /\ Absent(V7_1A_REG_KEY) /\ Absent(V7_1_REG_KEY)
  /\ Denied(V10_0_REG_KEY) /\ Decodes(V7_0_REG_KEY)
  /\ res = OkNone
  /\ opened = <<V7_1A_REG_KEY, V7_1_REG_KEY>>

\* what decoding subkey k gives a caller: its record, or None when corrupt
DecodeOutcome(k) ==
  IF Decodes(k)
    THEN OkSome(MkSdkInfo(registry[k].InstallationFolder,
                          IF "ProductName" \in registry[k].fields
                            THEN Some(registry[k].ProductName) ELSE NoString,
                          registry[k].ProductVersion))
    ELSE OkNone

(* C4 as stated: for every double-generation selector, when both the
   A-suffixed and the plain location exist the result is what the A-suffixed
   location decodes to and never the plain location's record; when only the
   plain location exists the result is what the plain location decodes to. *)
C4_ASuffixedWhenBothExist ==
  \A g \in DoubleGenerations :
    version = g =>
      /\ (Present(ASuffixed(g)) /\ Present(Plain(g))) =>
            /\ res = DecodeOutcome(ASuffixed(g))
            /\ ~FromKey(Plain(g))
      /\ (Absent(ASuffixed(g)) /\ Present(Plain(g))) =>
            res = DecodeOutcome(Plain(g))

(* C4 amended: for every double-generation selector, when both locations
   exist and the A-suffixed one decodes, its record is returned and never the
   plain location's; when both exist and the A-suffixed one does not decode,
   or when only the plain location exists, the result is what the plain
   location decodes to. *)
C4_ASuffixedWhenItDecodes ==
  \A g \in DoubleGenerations :
    version = g =>
      /\ (Decodes(ASuffixed(g)) /\ Present(Plain(g))) =>
            /\ FromKey(ASuffixed(g))
            /\ res = DecodeOutcome(ASuffixed(g))
            /\ ~FromKey(Plain(g))
      /\ (Corrupt(ASuffixed(g)) /\ Present(Plain(g))) =>
            res = DecodeOutcome(Plain(g))
      /\ (Absent(ASuffixed(g)) /\ Present(Plain(g))) =>
            res = DecodeOutcome(Plain(g))

C4_Witness ==
  /\ version = "V8_1"
  /\ Decodes(V8_1A_REG_KEY) /\ Decodes(V8_1_REG_KEY)
  /\ FromKey(V8_1A_REG_KEY)

\* position of subkey k in the search order
PosOf(k) == CHOOSE i \in 1..Len(SearchOrder) : SearchOrder[i] = k

(* C5: a failure to open a subkey other than not-found is returned by find
   as that very error, for every generation selector; in find(Any) it ends the
   search at once: the failing subkey is the last one opened and no record of
   a later subkey takes the error's place. *)
C5_AccessErrorPropagates ==
  /\ \A i \in 1..Len(opened) :
       Denied(opened[i]) => (ErrorOf(opened[i]) /\ i = Len(opened))
  /\ (version = "V10_0" /\ Denied(V10_0_REG_KEY)) => ErrorOf(V10_0_REG_KEY)
  /\ \A g \in DoubleGenerations :
       version = g =>
         /\ Denied(ASuffixed(g)) => ErrorOf(ASuffixed(g))
         /\ (~Decodes(ASuffixed(g)) /\ ~Denied(ASuffixed(g)) /\ Denied(Plain(g)))
              => ErrorOf(Plain(g))
  /\ (version = "Any" /\ ~BothSet) =>
       \A k \in RegKeys :
         (Denied(k) /\ \A j \in 1..(PosOf(k) - 1) :
                          ~Decodes(SearchOrder[j]) /\ ~Denied(SearchOrder[j]))
           => (ErrorOf(k) /\ opened = SubSeq(SearchOrder, 1, PosOf(k)))

C5_Witness ==
  /\ version = "Any" /\ ~BothSet
  /\ Denied(V8_1A_REG_KEY) /\ Decodes(V7_0_REG_KEY)
  /\ ErrorOf(V8_1A_REG_KEY)
  /\ opened = <<V10_0_REG_KEY, V8_1A_REG_KEY>>

(* C6: a subkey that is present but does not decode (ProductVersion missing)
   gives None from the lookup and never an error; in find(Any) the search
   goes on to the next subkey in order, so that a corrupt registration does
   not keep a later valid one from being returned. *)
C6_CorruptIsSkipped ==
  /\ res.tag = "Err" => ~Corrupt(res.err.subkey)
  /\ (version = "V10_0" /\ Corrupt(V10_0_REG_KEY)) => res = OkNone
  /\ \A g \in DoubleGenerations :
       (version = g /\ Corrupt(ASuffixed(g)) /\ ~Decodes(Plain(g)) /\ ~Denied(Plain(g)))
         => res = OkNone
  /\ version = "Any" =>
       /\ \A i \in 1..Len(opened) :
            Corrupt(opened[i]) =>
              IF i = Len(opened)
                THEN opened[i] = V6_0_REG_KEY /\ res = OkNone
                ELSE opened[i + 1] = SearchOrder[PosOf(opened[i]) + 1]
       /\ ~BothSet =>
            \A k \in RegKeys :
              (Decodes(k) /\ \A j \in 1..(PosOf(k) - 1) :
                                Corrupt(SearchOrder[j]) \/ Absent(SearchOrder[j]))
                => (FromKey(k) /\ opened = SubSeq(SearchOrder, 1, PosOf(k)))

C6_Witness ==
  /\ version = "Any" /\ ~BothSet
  /\ Corrupt(V10_0_REG_KEY) /\ Decodes(V7_1_REG_KEY)
  /\ FromKey(V7_1_REG_KEY)
  /\ opened = SubSeq(SearchOrder, 1, 7)

(* C7 as stated: whenever WindowsSdkVersion is present but not valid text,
   find(Env) and find(Any) end in a fatal outcome, whatever the state of
   WindowsSdkDir and of the registry. *)
C7_MalformedVersionIsFatal ==
  (version \in {"Env", "Any"} /\ VerSet /\ ~VerIsText) =>
     res.tag \in {"Panic", "Err"}

(* C7 amended: whenever WindowsSdkDir is present and WindowsSdkVersion is
   present but not valid text, find(Env) and find(Any) panic: they return
   neither None nor a record, and find(Any) opens no subkey. *)
C7_MalformedVersionIsFatalWhenDirSet ==
  (version \in {"Env", "Any"} /\ BothSet /\ ~VerIsText) =>
     res.tag = "Panic" /\ opened = <<>>

C7_Witness ==
  /\ version = "Any" /\ BothSet /\ ~VerIsText
  /\ Decodes(V10_0_REG_KEY)
  /\ res.tag = "Panic"

(* C10 as stated: a double-generation probe opens the A-suffixed location
   first and opens the plain location only if the A-suffixed location is
   absent; whenever the A-suffixed location is present (decodable or not) or
   fails with an access error, the plain location is not opened and its
   record is not returned. *)
C10_PlainOnlyIfASuffixedAbsent ==
  \A g \in DoubleGenerations :
    version = g =>
      /\ opened[1] = ASuffixed(g)
      /\ (\E i \in 1..Len(opened) : opened[i] = Plain(g)) => Absent(ASuffixed(g))
      /\ (Present(ASuffixed(g)) \/ Denied(ASuffixed(g))) =>
            (opened = <<ASuffixed(g)>> /\ ~FromKey(Plain(g)))

(* C10 amended: a double-generation probe opens the A-suffixed location
   first and opens the plain location exactly when the A-suffixed lookup gave
   None, that is when the A-suffixed location is absent or present but does
   not decode; when the A-suffixed location decodes or fails with an access
   error, the plain location is not opened and its record is not returned. *)
C10_PlainOnlyIfASuffixedGaveNone ==
  \A g \in DoubleGenerations :
    version = g =>
      /\ opened[1] = ASuffixed(g)
      /\ (Absent(ASuffixed(g)) \/ Corrupt(ASuffixed(g))) =>
            opened = <<ASuffixed(g), Plain(g)>>
      /\ (Decodes(ASuffixed(g)) \/ Denied(ASuffixed(g))) =>
            (opened = <<ASuffixed(g)>> /\ ~FromKey(Plain(g)))

C10_Witness ==
  /\ version = "V7_0"
  /\ Denied(V7_0A_REG_KEY) /\ Decodes(V7_0_REG_KEY)
  /\ opened = <<V7_0A_REG_KEY>>
  /\ ErrorOf(V7_0A_REG_KEY)

(* C8: find(Env) never returns an error value and never opens a subkey; it
   returns a record exactly when WindowsSdkDir and WindowsSdkVersion are both
   present (the version being valid text) and None when either is absent; the
   record has the value of WindowsSdkDir as installation folder and no
   product name. *)
C8_EnvProbe ==
  version = "Env" =>
    /\ res.tag # "Err"
    /\ opened = <<>>
    /\ (res.tag = "OkSome") <=> (BothSet /\ VerIsText)
    /\ ~BothSet => res = OkNone
    /\ res.tag = "OkSome" =>
         /\ res.info.installation_folder = env["WindowsSdkDir"].val
         /\ res.info.product_name = NoString

C8_Witness ==
  /\ version = "Env"
  /\ registry = OnlyV10_0
  /\ env["WindowsSdkDir"] = Some(NotUnicode)
  /\ res.tag = "OkSome"
  /\ res.info.installation_folder = NotUnicode
  /\ res.info.product_name = NoString

\* the three characters dot, zero, backslash
DotZeroBackslash == <<".", "0", "\\">>
\* the text t has the three characters at position i
OccursAt(t, i) ==
  /\ i >= 1 /\ i + 2 <= Len(t)
  /\ SubSeq(t, i, i + 2) = DotZeroBackslash

(* C9: the product_version of a record built from the environment is the
   part of the WindowsSdkVersion text before the first occurrence of the
   three characters dot, zero, backslash, and the whole text when they do not
   occur; a dot-zero followed by anything but a backslash does not cut the
   text: "10.0.19041.0\" gives "10.0.19041". *)
C9_VersionPrefix ==
  (version \in {"Env", "Any"} /\ BothSet /\ VerIsText) =>
    LET t == env["WindowsSdkVersion"].val.text
        v == res.info.product_version
        occ == {i \in 1..Len(t) : OccursAt(t, i)} IN
    /\ res.tag = "OkSome"
    /\ occ = {} => v = t
    /\ occ # {} =>
         \E i \in occ : /\ \A j \in occ : i <= j
                        /\ v = SubSeq(t, 1, i - 1)
    /\ t = ExampleVersion =>
         v = <<"1", "0", ".", "0", ".", "1", "9", "0", "4", "1">>

C9_Witness ==
  /\ version = "Env"
  /\ env["WindowsSdkVersion"] = Some(OsStr(ExampleVersion))
  /\ res.tag = "OkSome"
  /\ res.info.product_version = <<"1", "0", ".", "0", ".", "1", "9", "0", "4", "1">>
====
